---- MODULE Spec2Model ----
(***************************************************************************)
(* Model of the local proxy manager of cloud-run-mcp                       *)
(* (src/lib/gcp-auth-check.js, lines 97-179): the module-level handle      *)
(* proxyProcess, startProxy with its capability pre-check, stopProxy, and  *)
(* the events a child process delivers to the listeners the code installs. *)
(*                                                                         *)
(* Text is a sequence of fragments; String.prototype.includes is the       *)
(* contiguous-subsequence test Includes.  A start call and the proxy       *)
(* process it spawns share one identifier (a call spawns at most one).     *)
(* JavaScript runs each listener to completion, so one action is one       *)
(* listener run (or one call up to its first suspension).  Events that     *)
(* Node emits from process.nextTick, and the continuation of an await      *)
(* whose promise a listener resolved, run before any other event: they are *)
(* queued in tickQueue and nothing else is enabled until it is empty.      *)
(* The console is kept as its last line, lastLog.  Spec is the             *)
(* specification of the proxy manager.                                     *)
(*                                                                         *)
(* ToolSpec is the specification of the tool registry of the same file     *)
(* (lines 212-867): gcpTool, registerTools and the ten handlers it         *)
(* registers.  A handler is an operator from its arguments to what it does *)
(* before its first await (return, throw or call a collaborator), with     *)
(* one operator for the text it renders from the collaborator's answer and *)
(* one for its catch block; get_service_log keeps its loop state in        *)
(* allLogs and requestOptions.  The collaborators are imported modules:    *)
(* what they return or throw is chosen from small sets.                    *)
(*                                                                         *)
(* StartupSpec is the specification of the credentials check               *)
(* (ensureGCPCredentials, lines 26-79 of the same file) and of the prompt  *)
(* registry (src/prompts.js).  The check is followed from its call to its  *)
(* result through its two awaits; a console line is the stream it was      *)
(* written to and its text.  A prompt handler has no await: one call is    *)
(* one step.                                                               *)
(***************************************************************************)
EXTENDS Integers, Sequences, FiniteSets, TLC

\* ---------------------------------------------------------------- bounds
MaxStarts == 2
MaxStops == 2
\* pages one get_service_log call fetches at most
MaxPages == 3
\* calls of ensureGCPCredentials
MaxChecks == 2

\* ------------------------------------------------------------- constants
NoProc == 0
NoCode == -1

StartCalls == 1..MaxStarts
StopCalls == 1..MaxStops

Marker == <<"Proxying to Cloud ", "Run service">>
ComponentId == <<"cloud-run-", "proxy">>
InstallCommand == "gcloud components install cloud-run-proxy"

AlreadyRunningText ==
  <<"A proxy is already running. Please stop it before starting a new one.">>
MissingText ==
  <<"The 'cloud-run-proxy' component is not installed. Please run '",
    InstallCommand, "' and try again.">>
NoProxyText == <<"No proxy is currently running.">>
StoppedText == <<"Proxy stopped.">>

\* arguments of startProxy(project, region, service, port)
Args1 == [project |-> "p1", region |-> "r1", service |-> "svc", port |-> 8080]
Args2 == [project |-> "p2", region |-> "r2", service |-> "svc2", port |-> 8081]
\* the arguments of the c-th call: consecutive calls differ in every argument
ArgsOf(c) == IF c % 2 = 1 THEN Args1 ELSE Args2
NoArgs == [project |-> "", region |-> "", service |-> "", port |-> 0]

\* chunks a proxy process may write to stdout or stderr
Chunks ==
  { <<"other">>, <<"other", "Proxying to Cloud ">>, <<"Run service", "other">>,
    <<"Proxying to Cloud ", "Run service">> }
ErrChunks == { <<"other">>, <<"Proxying to Cloud ", "Run service">> }
\* the sequences of chunks a component listing may write to stdout before
\* it terminates: nothing, another component, the identifier in one chunk,
\* the identifier split over two chunks, its two halves in the wrong order
ListChunkSeqs ==
  { <<>>,
    << <<"other">> >>,
    << <<"other", "cloud-run-", "proxy">> >>,
    << <<"other", "cloud-run-">>, <<"proxy", "other">> >>,
    << <<"proxy">>, <<"cloud-run-">> >> }
ExitCodes == {0, 1}

\* -------------------------------------------------------- pure functions
\* String.prototype.includes on fragment sequences
Includes(text, pat) ==
  \E i \in 0..(Len(text) - Len(pat)) : SubSeq(text, i + 1, i + Len(pat)) = pat

\* line 106: output += data.toString(), over the chunks in order
RECURSIVE Concat(_)
Concat(chunks) ==
  IF chunks = <<>> THEN <<>> ELSE Head(chunks) \o Concat(Tail(chunks))

\* template literal `${port}`
PortText(port) ==
  CASE port = 8080 -> "8080"
    [] port = 8081 -> "8081"
    [] OTHER -> "0"

\* mutant of alreadyRunning: the guard of line 122 never fires
alreadyRunning_never(h) == FALSE

\* line 122: if (proxyProcess)
alreadyRunning(h) == h # NoProc

\* mutant of isProxyComponentInstalled: the exit code is not looked at
isProxyComponentInstalled_anyCode(code, output) ==
  Includes(output, ComponentId)

\* lines 108-114: the value the 'close' listener of the listing resolves with
isProxyComponentInstalled(code, output) ==
  IF code = 0 THEN Includes(output, ComponentId) ELSE FALSE

\* mutant of isReadyChunk: any stdout output counts as readiness
isReadyChunk_any(chunk) == TRUE

\* line 144: data.toString().includes('Proxying to Cloud Run service')
isReadyChunk(chunk) == Includes(chunk, Marker)

\* line 145
StartedText(a) ==
  <<"Proxy for service ", a.service, " started on port ", PortText(a.port), ".">>

\* line 143 and line 150: the console lines
StdoutLine(chunk) == <<"Proxy stdout: ">> \o chunk
StderrLine(chunk) == <<"Proxy stderr: ">> \o chunk

\* line 162
FailedText(msg) == <<"Failed to start proxy: ", msg>>

\* lines 132-140: argv of the spawned proxy
ProxyArgv(a) ==
  <<"run", "services", "proxy", a.service, a.project, a.region, PortText(a.port)>>

\* mutant of hasSession: stopProxy does not test the handle
hasSession_always(h) == TRUE

\* line 168: if (proxyProcess)
hasSession(h) == h # NoProc

\* mutant of handleAfterClose: the 'close' listeners leave the handle alone
handleAfterClose_keep(h, p) == h

\* line 154 and line 171: the handle after a 'close' listener of process p ran
handleAfterClose(h, p) == NoProc

\* line 161: the handle after the 'error' listener of process p ran
handleAfterError(h, p) == NoProc

\* ------------------------------------------------- tools: values and texts
\* JavaScript values the handlers test: a value has a type and, for a string
\* or a number, its text as a sequence of fragments (" " is white space)
Undefined == [type |-> "undefined", text |-> <<>>]
Str(t) == [type |-> "string", text |-> t]
Num42 == [type |-> "number", text |-> <<"42">>]

\* typeof v !== 'string'
NotString(v) == v.type # "string"

\* !v
Falsy(v) ==
  v.type \in {"undefined", "null"} \/ (v.type = "string" /\ v.text = <<>>)

\* `${v}` in a template literal
ToText(v) ==
  IF v.type \in {"undefined", "null"} THEN <<v.type>> ELSE v.text

RECURSIVE TrimStart(_)
TrimStart(t) ==
  IF t # <<>> /\ Head(t) = " " THEN TrimStart(Tail(t)) ELSE t
RECURSIVE TrimEnd(_)
TrimEnd(t) ==
  IF t # <<>> /\ t[Len(t)] = " " THEN TrimEnd(SubSeq(t, 1, Len(t) - 1)) ELSE t
\* String.prototype.trim
Trim(t) == TrimEnd(TrimStart(t))

\* v.trim() === '' for a string v
IsBlank(v) == Trim(v.text) = <<>>

\* Array.prototype.join('\n') over texts
RECURSIVE JoinLines(_)
JoinLines(blocks) ==
  IF blocks = <<>> THEN <<>>
  ELSE IF Len(blocks) = 1 THEN blocks[1]
  ELSE blocks[1] \o <<"\n">> \o JoinLines(Tail(blocks))

\* the `files` argument: undefined, a non-array object, or an array of
\* entries; an entry of deploy_file_contents has a filename and a content,
\* an entry of deploy_local_files is a path (kept in filename)
NoFiles == [type |-> "undefined", items |-> <<>>]
NotAnArray == [type |-> "object", items |-> <<>>]
Files(items) == [type |-> "array", items |-> items]
File(name, content) == [filename |-> name, content |-> content]

\* the arguments object of a tool call
NoToolArgs ==
  [project |-> Undefined, region |-> Undefined, service |-> Undefined,
   projectId |-> Undefined, files |-> NoFiles, folderPath |-> Undefined,
   imageUrl |-> Undefined, sandboxUrl |-> Undefined]

MyProject == Str(<<"my-project">>)
MyRegion == Str(<<"my-region">>)
MyService == Str(<<"my-service">>)
Located ==
  [NoToolArgs EXCEPT !.project = MyProject, !.region = MyRegion,
                     !.service = MyService]

\* values tried for `project`, for a text argument and for `files`
ProjectValues == {MyProject, Undefined, Num42}
TextValues == {Str(<<"/my/", "folder">>), Str(<<" ", " ">>), Str(<<>>),
               Undefined, Num42}
LocalFileValues ==
  {NoFiles, NotAnArray, Files(<<>>),
   Files(<<File(<<"file1">>, Undefined), File(<<"file2">>, Undefined)>>)}
ContentFileValues ==
  {NoFiles, NotAnArray, Files(<<>>),
   Files(<<File(<<"file1">>, Str(<<"content1">>))>>),
   Files(<<File(<<"file1">>, Str(<<"content1">>)), File(<<"file2">>, Str(<<>>))>>),
   Files(<<File(<<"file1">>, Undefined)>>)}

\* mutant of RegisteredNames: run_python_code is not registered
RegisteredNames_nine ==
  <<"list_projects", "create_project", "list_services", "get_service",
    "get_service_log", "deploy_local_files", "deploy_local_folder",
    "deploy_file_contents", "deploy_container_image">>

\* lines 237-865: the names passed to server.registerTool, in call order
RegisteredNames ==
  <<"list_projects", "create_project", "list_services", "get_service",
    "get_service_log", "deploy_local_files", "deploy_local_folder",
    "deploy_file_contents", "run_python_code", "deploy_container_image">>

\* the tools whose handler registerTools wraps in gcpTool (all but line 750)
GatedTools ==
  {"list_projects", "create_project", "list_services", "get_service",
   "get_service_log", "deploy_local_files", "deploy_local_folder",
   "deploy_file_contents", "deploy_container_image"}

\* every name a client may ask for
ToolNames ==
  {RegisteredNames[i] : i \in 1..Len(RegisteredNames)}
    \cup {"start_proxy", "stop_proxy"}

\* the arguments tried for each tool
ToolArgs(tool) ==
  CASE tool = "list_projects" -> {NoToolArgs}
    [] tool = "create_project" ->
         {[NoToolArgs EXCEPT !.projectId = v] : v \in TextValues}
    [] tool = "list_services" ->
         {[Located EXCEPT !.project = p] : p \in ProjectValues}
    [] tool = "get_service" ->
         {[Located EXCEPT !.project = p, !.service = s] :
            p \in ProjectValues, s \in {MyService, Undefined}}
    [] tool = "get_service_log" ->
         {Located, [Located EXCEPT !.service = Undefined]}
    [] tool = "deploy_local_files" ->
         {[Located EXCEPT !.project = p, !.files = f] :
            p \in {MyProject, Undefined}, f \in LocalFileValues}
    [] tool = "deploy_local_folder" ->
         {[Located EXCEPT !.project = p, !.folderPath = v] :
            p \in {MyProject, Undefined}, v \in TextValues}
    [] tool = "deploy_file_contents" ->
         {[Located EXCEPT !.project = p, !.files = f] :
            p \in {MyProject, Undefined}, f \in ContentFileValues}
    [] tool = "run_python_code" ->
         {[NoToolArgs EXCEPT !.sandboxUrl = u] :
            u \in {Undefined, Str(<<"http://sandbox">>)}}
    [] tool = "deploy_container_image" ->
         {[Located EXCEPT !.project = p, !.imageUrl = v] :
            p \in {MyProject, Undefined}, v \in TextValues}
    [] OTHER -> {NoToolArgs}

\* what a handler does before its first await: it returns a text, throws
\* an Error, or calls a collaborator
Ret(text) == [kind |-> "return", text |-> text, fn |-> "none"]
Throw(text) == [kind |-> "throw", text |-> text, fn |-> "none"]
Call(fn) == [kind |-> "call", text |-> <<>>, fn |-> fn]

\* { content: [ { type: 'text', text } ] }
Content(text) == << [type |-> "text", text |-> text] >>
\* the Error a rejected handler promise carries
Thrown(text) == << [type |-> "Error", text |-> text] >>

\* what a collaborator throws: an Error with a message, or a bare string
Errors ==
  { [message |-> <<"Permission denied">>, orSelf |-> <<"Permission denied">>],
    [message |-> <<"undefined">>, orSelf |-> <<"quota exceeded">>] }

\* what a collaborator returns
NullResponse ==
  [null |-> TRUE, uri |-> <<>>, lastModifier |-> <<>>, projectId |-> <<>>,
   items |-> <<>>, output |-> <<>>]
Deployed ==
  [NullResponse EXCEPT !.null = FALSE, !.uri = <<"my-uri">>,
                       !.lastModifier = <<"me">>]
Listed(items) == [NullResponse EXCEPT !.null = FALSE, !.items = items]
Item(id, name, uri) == [id |-> id, name |-> name, uri |-> uri]

Responses(fn, args) ==
  CASE fn = "listProjects" ->
         {Listed(<<>>),
          Listed(<<Item("project1", <<>>, ""), Item("project2", <<>>, "")>>)}
    [] fn = "createProjectAndAttachBilling" ->
         {[NullResponse EXCEPT !.null = FALSE,
             !.projectId = IF args.projectId.type = "undefined"
                             THEN <<"generated-project">>
                             ELSE args.projectId.text]}
    [] fn = "listServices" ->
         {Listed(<<>>),
          Listed(<<Item("", <<"projects", "p", "services", "service1">>, "uri1"),
                   Item("", <<"service2">>, "uri2")>>)}
    [] fn = "getService" -> {NullResponse, Deployed}
    [] fn = "runCodeInSandbox" ->
         {[NullResponse EXCEPT !.null = FALSE, !.output = <<"4">>]}
    [] OTHER -> {Deployed}

Collaborators ==
  {"listProjects", "createProjectAndAttachBilling", "listServices",
   "getService", "getServiceLogs", "deploy", "deployImage",
   "runCodeInSandbox"}
AllResponses ==
  UNION {Responses(fn, args) :
           fn \in Collaborators \ {"getServiceLogs"},
           args \in UNION {ToolArgs(t) : t \in GatedTools \cup {"run_python_code"}}}

\* line 218: the advisory of the credential gate
AdvisoryText ==
  <<"GCP credentials are not available. Please configure your environment.">>

\* mutant of gcpTool: the gate lets every handler through
gcpTool_ungated(flag, fn) == fn

\* lines 212-224: the handler registered for a gated tool
gcpTool(flag, fn) == IF flag # "true" THEN "advisory" ELSE fn

\* values registerTools may get for gcpCredentialsAvailable (line 233)
FlagValues == {"true", "false", "undefined"}

\* ---------------------------------------------------------- the handlers
\* lines 243-264
list_projects(args) == Call("listProjects")
list_projects_then(args, r) ==
  <<"Available GCP Projects:\n">>
    \o JoinLines([i \in 1..Len(r.items) |-> <<"- ", r.items[i].id>>])
list_projects_catch(args, e) == <<"Error listing GCP projects: ">> \o e.message

\* mutant of create_project: the projectId is handed on unchecked
create_project_unchecked(args) == Call("createProjectAndAttachBilling")

\* lines 282-316
create_project(args) ==
  IF args.projectId.type # "undefined"
       /\ (NotString(args.projectId) \/ IsBlank(args.projectId))
    THEN Ret(<<"Error: If provided, Project ID must be a non-empty string.">>)
    ELSE Call("createProjectAndAttachBilling")
create_project_then(args, r) ==
  <<"Successfully created GCP project with ID \"">> \o r.projectId
    \o <<"\". You can now use this project ID for deployments.">>
create_project_catch(args, e) ==
  <<"Error creating GCP project or attaching billing: ">> \o e.message

\* lines 335-373
list_services(args) ==
  IF NotString(args.project)
    THEN Ret(<<"Error: Project ID must be provided and be a non-empty string.">>)
    ELSE Call("listServices")
list_services_then(args, r) ==
  <<"Services in project ">> \o ToText(args.project) \o <<" (location ">>
    \o ToText(args.region) \o <<"):\n">>
    \o JoinLines([i \in 1..Len(r.items) |->
         <<"- ", r.items[i].name[Len(r.items[i].name)], " (URL: ",
           r.items[i].uri, ")">>])
list_services_catch(args, e) ==
  <<"Error listing services for project ">> \o ToText(args.project)
    \o <<" (region ">> \o ToText(args.region) \o <<"): ">> \o e.message

\* lines 396-442
get_service(args) ==
  IF NotString(args.project)
    THEN Ret(<<"Error: Project ID must be provided.">>)
  ELSE IF NotString(args.service)
    THEN Ret(<<"Error: Service name must be provided.">>)
  ELSE Call("getService")
get_service_then(args, r) ==
  IF ~r.null
    THEN <<"Name: ">> \o ToText(args.service) \o <<"\nRegion: ">>
           \o ToText(args.region) \o <<"\nProject: ">> \o ToText(args.project)
           \o <<"\nURL: ">> \o r.uri \o <<"\nLast deployed by: ">>
           \o r.lastModifier
    ELSE <<"Service ">> \o ToText(args.service) \o <<" not found in project ">>
           \o ToText(args.project) \o <<" (region ">> \o ToText(args.region)
           \o <<").">>
get_service_catch(args, e) ==
  <<"Error getting service ">> \o ToText(args.service) \o <<" in project ">>
    \o ToText(args.project) \o <<" (region ">> \o ToText(args.region)
    \o <<"): ">> \o e.message

\* lines 466-477: get_service_log starts its loop with the first fetch
get_service_log(args) == Call("getServiceLogs")
\* lines 495-504: its catch block
get_service_log_catch(args, e) ==
  <<"Error getting Logs for service ">> \o ToText(args.service)
    \o <<" in project ">> \o ToText(args.project) \o <<" (region ">>
    \o ToText(args.region) \o <<"): ">> \o e.message

\* lines 566, 640, 732 and 850: the deployed-service text
DeployedText(args, r, from) ==
  <<"Cloud Run service ">> \o ToText(args.service) \o <<" deployed ">> \o from
    \o <<"in project ">> \o ToText(args.project)
    \o <<"\nCloud Console: https://console.cloud.google.com/run/detail/">>
    \o ToText(args.region) \o <<"/">> \o ToText(args.service)
    \o <<"?project=">> \o ToText(args.project) \o <<"\nService URL: ">> \o r.uri

\* lines 539-580
deploy_local_files(args) ==
  IF NotString(args.project)
    THEN Throw(<<"Project must specified, please prompt the user for a valid existing Google Cloud project ID.">>)
  ELSE IF args.files.type # "array" THEN Throw(<<"Files must specified">>)
  ELSE IF Len(args.files.items) = 0
    THEN Throw(<<"No files specified for deployment">>)
  ELSE Call("deploy")
deploy_local_files_then(args, r) == DeployedText(args, r, <<>>)
deploy_local_files_catch(args, e) ==
  <<"Error deploying to Cloud Run: ">> \o e.orSelf

\* lines 615-654
deploy_local_folder(args) ==
  IF NotString(args.project)
    THEN Throw(<<"Project must be specified, please prompt the user for a valid existing Google Cloud project ID.">>)
  ELSE IF NotString(args.folderPath) \/ IsBlank(args.folderPath)
    THEN Throw(<<"Folder path must be specified and be a non-empty string.">>)
  ELSE Call("deploy")
deploy_local_folder_then(args, r) ==
  DeployedText(args, r, <<"from folder ">> \o ToText(args.folderPath) \o <<" ">>)
deploy_local_folder_catch(args, e) ==
  <<"Error deploying folder to Cloud Run: ">> \o e.orSelf

\* lines 699-746
deploy_file_contents(args) ==
  IF NotString(args.project)
    THEN Throw(<<"Project must specified, please prompt the user for a valid existing Google Cloud project ID.">>)
  ELSE IF args.files.type # "array" THEN Throw(<<"Files must be specified">>)
  ELSE IF Len(args.files.items) = 0
    THEN Throw(<<"No files specified for deployment">>)
  ELSE IF \E i \in 1..Len(args.files.items) : Falsy(args.files.items[i].content)
    THEN LET i == CHOOSE j \in 1..Len(args.files.items) :
                    /\ Falsy(args.files.items[j].content)
                    /\ \A k \in 1..(j - 1) : ~Falsy(args.files.items[k].content)
         IN Throw(<<"File ">> \o args.files.items[i].filename
                    \o <<" must have content">>)
  ELSE Call("deploy")
deploy_file_contents_then(args, r) == DeployedText(args, r, <<>>)
deploy_file_contents_catch(args, e) ==
  <<"Error deploying to Cloud Run: ">> \o e.orSelf

\* lines 759-791; args.sandboxUrl is process.env.CODE_SANDBOX_URL as the
\* handler reads it at line 760
run_python_code(args) ==
  IF Falsy(args.sandboxUrl)
    THEN Ret(<<"Error: CODE_SANDBOX_URL environment variable is not set.">>)
    ELSE Call("runCodeInSandbox")
run_python_code_then(args, r) == r.output
run_python_code_catch(args, e) ==
  <<"Error running code in sandbox: ">> \o e.message

\* lines 825-864
deploy_container_image(args) ==
  IF NotString(args.project)
    THEN Throw(<<"Project must specified, please prompt the user for a valid existing Google Cloud project ID.">>)
  ELSE IF NotString(args.imageUrl) \/ IsBlank(args.imageUrl)
    THEN Throw(<<"Container image URL must be specified and be a non-empty string.">>)
  ELSE Call("deployImage")
deploy_container_image_then(args, r) == DeployedText(args, r, <<>>)
deploy_container_image_catch(args, e) ==
  <<"Error deploying to Cloud Run: ">> \o e.orSelf

\* the handler function registered under each name
Prologue(tool, args) ==
  CASE tool = "list_projects" -> list_projects(args)
    [] tool = "create_project" -> create_project(args)
    [] tool = "list_services" -> list_services(args)
    [] tool = "get_service" -> get_service(args)
    [] tool = "get_service_log" -> get_service_log(args)
    [] tool = "deploy_local_files" -> deploy_local_files(args)
    [] tool = "deploy_local_folder" -> deploy_local_folder(args)
    [] tool = "deploy_file_contents" -> deploy_file_contents(args)
    [] tool = "run_python_code" -> run_python_code(args)
    [] tool = "deploy_container_image" -> deploy_container_image(args)
Then(tool, args, r) ==
  CASE tool = "list_projects" -> list_projects_then(args, r)
    [] tool = "create_project" -> create_project_then(args, r)
    [] tool = "list_services" -> list_services_then(args, r)
    [] tool = "get_service" -> get_service_then(args, r)
    [] tool = "deploy_local_files" -> deploy_local_files_then(args, r)
    [] tool = "deploy_local_folder" -> deploy_local_folder_then(args, r)
    [] tool = "deploy_file_contents" -> deploy_file_contents_then(args, r)
    [] tool = "run_python_code" -> run_python_code_then(args, r)
    [] tool = "deploy_container_image" -> deploy_container_image_then(args, r)
Catch(tool, args, e) ==
  CASE tool = "list_projects" -> list_projects_catch(args, e)
    [] tool = "create_project" -> create_project_catch(args, e)
    [] tool = "list_services" -> list_services_catch(args, e)
    [] tool = "get_service" -> get_service_catch(args, e)
    [] tool = "get_service_log" -> get_service_log_catch(args, e)
    [] tool = "deploy_local_files" -> deploy_local_files_catch(args, e)
    [] tool = "deploy_local_folder" -> deploy_local_folder_catch(args, e)
    [] tool = "deploy_file_contents" -> deploy_file_contents_catch(args, e)
    [] tool = "run_python_code" -> run_python_code_catch(args, e)
    [] tool = "deploy_container_image" -> deploy_container_image_catch(args, e)

\* ----------------------------------------------------- the log pages
Null == [type |-> "null", text |-> <<>>]
Token1 == [type |-> "object", text |-> <<"pageToken: ", "nextPage">>]
Token2 == [type |-> "object", text |-> <<"pageToken: ", "thirdPage">>]

\* what getServiceLogs may return: a block of log lines (or none) and the
\* options of the next request (or none)
LogBlocks == {Null, Str(<<>>), Str(<<"log1", "\n", "log2">>), Str(<<"log3">>)}
NextOptions == {Undefined, Null, Token1, Token2}
Pages == { [logs |-> l, requestOptions |-> o] : l \in LogBlocks, o \in NextOptions }

\* mutant of pushLogs: every block is pushed, empty or not
pushLogs_always(logs, response) == Append(logs, response.logs.text)

\* lines 479-481: if (response.logs) allLogs.push(response.logs)
pushLogs(logs, response) ==
  IF ~Falsy(response.logs) THEN Append(logs, response.logs.text) ELSE logs

\* mutant of nextRequestOptions: the first page token is used for every page
nextRequestOptions_stale(response) ==
  IF Falsy(response.requestOptions) THEN response.requestOptions ELSE Token1

\* line 485: requestOptions = response.requestOptions
nextRequestOptions(response) == response.requestOptions

\* mutant of loopContinues: the loop stops after the first page
loopContinues_never(options) == FALSE

\* line 486: while (requestOptions)
loopContinues(options) == ~Falsy(options)

\* ------------------------------------------- credentials check and prompts
\* a console line: console.error writes to "error", console.log to "log"
ErrorLine(text) == [stream |-> "error", text |-> text]
LogLine(text) == [stream |-> "log", text |-> text]

\* what getClient or getAccessToken rejects with: an object of class Error
\* or TypeError with a message, a stack (<<>>: none) and the status of its
\* response (Undefined: no response)
AuthError(class, status, message, stack) ==
  [class |-> class, status |-> status, message |-> message, stack |-> stack]
Status401 == [type |-> "number", text |-> <<"401">>]
Status500 == [type |-> "number", text |-> <<"500">>]
AuthErrors ==
  { AuthError("Error", Undefined, <<"Failed to find credentials.">>,
              <<"stack of Error">>),
    AuthError("Error", Status401, <<"Request failed with status code 401">>,
              <<"stack of HTTP error">>),
    AuthError("TypeError", Undefined,
              <<"Unexpected token in JSON at position 0">>,
              <<"stack of TypeError">>),
    AuthError("TypeError", Status500, <<"Bad gateway body">>,
              <<"stack of TypeError with response">>),
    AuthError("Error", Undefined, <<"No stack">>, <<>>) }

\* line 27
CheckingLine ==
  ErrorLine(<<"Checking for Google Cloud Application Default Credentials...">>)
\* line 36
FoundLine == LogLine(<<"Application Default Credentials found.">>)
\* lines 39-41
NotSetUpLine ==
  ErrorLine(<<"ERROR: Google Cloud Application Default Credentials are not set up.">>)

\* mutant of diagnosis: every error is reported as the general fallback
diagnosis_fallback(error) ==
  ErrorLine(<<"An unexpected error occurred during credential verification.">>)

\* lines 43-57: the line that classifies the error
diagnosis(error) ==
  IF ~Falsy(error.status)
    THEN ErrorLine(<<"An HTTP error occurred (Status: ">>
           \o ToText(error.status)
           \o <<"). This often means misconfigured, expired credentials, or a network issue.">>)
  ELSE IF error.class = "TypeError"
    THEN ErrorLine(<<"An unexpected error occurred during credential verification (e.g., malformed response or invalid type).">>)
  ELSE ErrorLine(<<"An unexpected error occurred during credential verification.">>)

\* lines 59-68 (the back quotes around the variable name in the third line
\* are left out)
HelpLines ==
  << ErrorLine(<<"\nFor more details or alternative setup methods, consider:">>),
     ErrorLine(<<"1. If running locally, run: gcloud auth application-default login.">>),
     ErrorLine(<<"2. Ensuring the GOOGLE_APPLICATION_CREDENTIALS environment variable points to a valid service account key file.">>),
     ErrorLine(<<"3. If on a Google Cloud environment (e.g., GCE, Cloud Run), verify the associated service account has necessary permissions.">>) >>

\* lines 69-71
OriginalLine(error) ==
  ErrorLine(<<"\nOriginal error message from Google Auth Library: ">>
              \o error.message)

\* lines 74-76: console.error('Error stack:', error.stack) when there is one
StackLines(error) ==
  IF error.stack # <<>>
    THEN << ErrorLine(<<"Error stack:", " ">> \o error.stack) >>
    ELSE <<>>

\* lines 39-76: what the catch block writes, in order
FailureLines(error) ==
  <<NotSetUpLine, diagnosis(error)>> \o HelpLines
    \o <<OriginalLine(error)>> \o StackLines(error)

\* a call of the Google Auth Library and how it ended
AuthCall(fn, outcome) == [fn |-> fn, outcome |-> outcome]

\* src/prompts.js: the names passed to server.registerPrompt, in call order
PromptNames == <<"deploy", "logs">>

\* the arguments object of a prompt call
NoPromptArgs ==
  [name |-> Undefined, service |-> Undefined, project |-> Undefined,
   region |-> Undefined]
ServiceNames == {Undefined, Str(<<>>), MyService}
PromptArgs(prompt) ==
  { [NoPromptArgs EXCEPT ![IF prompt = "deploy" THEN "name" ELSE "service"] = n,
                         !.project = p, !.region = r] :
      n \in ServiceNames, p \in {Undefined, MyProject},
      r \in {Undefined, MyRegion} }
AllPromptArgs == PromptArgs("deploy") \cup PromptArgs("logs")

\* lines 29 and 51 of src/prompts.js: the defaults of `name` and `service`
DeployDefault ==
  <<"a name for the application based on the current working directory.">>
LogsDefault == <<"named for the current working directory">>

\* lines 28-39 of src/prompts.js: the text of the deploy prompt
deployPrompt(args) ==
  LET serviceNamePrompt ==
        IF Falsy(args.name) THEN DeployDefault ELSE args.name.text
  IN <<"Use the deploy_local_folder tool to deploy the current folder">>
       \o <<". The service name should be ">> \o serviceNamePrompt

\* lines 50-61 of src/prompts.js: the text of the logs prompt
logsPrompt(args) ==
  LET serviceNamePrompt ==
        IF Falsy(args.service) THEN LogsDefault ELSE args.service.text
  IN <<"Use get_service_log to get logs">>
       \o <<" for the service ">> \o serviceNamePrompt

\* the `messages` array a prompt handler returns
Messages(text) ==
  << [role |-> "user", content |-> [type |-> "text", text |-> text]] >>

VARIABLES
  proxyProcess,  \* line 99: NoProc, or the id of the process in the handle
  startPc,       \* per startProxy call: idle, check, waiting, resolved, rejected
  startArgs,     \* per startProxy call: the arguments its listeners capture
  startResult,   \* per startProxy call: the text it settled with
  procStatus,    \* per proxy process: none, failed, alive, closed
  procArgv,      \* per proxy process: argv it was spawned with
  stopPc,        \* per stopProxy call: idle, waiting, resolved
  stopTarget,    \* per stopProxy call: process whose 'close' it listens to
  stopResult,    \* per stopProxy call: the text it resolved with
  listOutput,    \* per startProxy call: `output` of its finished listing
  listCode,      \* per startProxy call: exit code of its finished listing
  lastLog,       \* the last console line the proxy listeners wrote
  kills,         \* number of kill() calls issued
  tickQueue,     \* events queued with process.nextTick
  registered,    \* names passed to server.registerTool, in call order
  handlers,      \* per tool name: the handler the server holds for it
  gcpCredentialsAvailable, \* the flag registerTools was called with
  invTool,       \* the tool of the handler invocation in progress
  invArgs,       \* its arguments
  invPc,         \* none, await, returned, thrown
  invResult,     \* the `content` array it returned, or the Error it threw
  invCalls,      \* the collaborator calls it made, in order
  allLogs,       \* line 467: local of get_service_log
  requestOptions, \* line 468: local of get_service_log
  served,        \* the pages getServiceLogs returned to this invocation
  authPc,        \* ensureGCPCredentials: idle, getClient, getAccessToken, done
  authResult,    \* what it resolved to: none, true, false
  authCalls,     \* the library calls of the running check, in order
  console,       \* the lines written by console.error and console.log
  exitCalls,     \* the codes passed to process.exit
  prompts,       \* names passed to server.registerPrompt, in call order
  promptCall,    \* the prompt and the arguments of the last handler call
  promptResult   \* the `messages` array it returned

\* the variables of the proxy (lines 97-179)
proxyVars == <<proxyProcess, startPc, startArgs, startResult, procStatus, procArgv,
               stopPc, stopTarget, stopResult, listOutput, listCode, lastLog, kills, tickQueue>>

\* the variables of the tool registry and of the running tool invocation
toolVars == <<registered, handlers, gcpCredentialsAvailable, invTool, invArgs,
              invPc, invResult, invCalls, allLogs, requestOptions, served>>

\* the variables of the credentials check and of the prompt registry
startupVars == <<authPc, authResult, authCalls, console, exitCalls, prompts,
                 promptCall, promptResult>>

\* what the proxy leaves alone
serverVars == <<toolVars, startupVars>>

vars == <<proxyVars, toolVars, startupVars>>

Init ==
  /\ proxyProcess = NoProc
  /\ startPc = [c \in StartCalls |-> "idle"]
  /\ startArgs = [c \in StartCalls |-> NoArgs]
  /\ startResult = [c \in StartCalls |-> <<>>]
  /\ procStatus = [c \in StartCalls |-> "none"]
  /\ procArgv = [c \in StartCalls |-> <<>>]
  /\ stopPc = [s \in StopCalls |-> "idle"]
  /\ stopTarget = [s \in StopCalls |-> NoProc]
  /\ stopResult = [s \in StopCalls |-> <<>>]
  /\ listOutput = [c \in StartCalls |-> <<>>]
  /\ listCode = [c \in StartCalls |-> NoCode]
  /\ lastLog = <<>>
  /\ kills = 0
  /\ tickQueue = <<>>
  /\ registered = <<>>
  /\ handlers = [t \in ToolNames |-> "none"]
  /\ gcpCredentialsAvailable = "undefined"
  /\ invTool = "none"
  /\ invArgs = NoToolArgs
  /\ invPc = "none"
  /\ invResult = <<>>
  /\ invCalls = <<>>
  /\ allLogs = <<>>
  /\ requestOptions = Undefined
  /\ served = <<>>
  /\ authPc = "idle"
  /\ authResult = "none"
  /\ authCalls = <<>>
  /\ console = <<>>
  /\ exitCalls = <<>>
  /\ prompts = <<>>
  /\ promptCall = [name |-> "none", args |-> NoPromptArgs]
  /\ promptResult = <<>>

\* calls are numbered in the order they are made
NextStart == CHOOSE c \in StartCalls :
  startPc[c] = "idle" /\ \A d \in StartCalls : d < c => startPc[d] # "idle"
NextStop == CHOOSE s \in StopCalls :
  stopPc[s] = "idle" /\ \A t \in StopCalls : t < s => stopPc[t] # "idle"

\* process p was spawned and has not terminated
IsAlive(p) == p \in StartCalls /\ procStatus[p] = "alive"

\* The session state of the design, read off the program state:
\* Idle: the handle is null; Stopping: a stopProxy call waits for the 'close'
\* of the process in the handle; Running: the startProxy call that spawned
\* it has resolved; Starting: otherwise.
SessionState ==
  IF proxyProcess = NoProc THEN "Idle"
  ELSE IF \E s \in StopCalls :
            stopPc[s] = "waiting" /\ stopTarget[s] = proxyProcess
    THEN "Stopping"
  ELSE IF startPc[proxyProcess] = "resolved" THEN "Running"
  ELSE "Starting"

\* mutant of Settle: the last resolve/reject call wins
Settle_lastWins(pcs, c, outcome) == [pcs EXCEPT ![c] = outcome]

\* a settled promise ignores further resolve/reject calls
Settle(pcs, c, outcome) ==
  IF pcs[c] = "waiting" THEN [pcs EXCEPT ![c] = outcome] ELSE pcs
SettleText(pcs, res, c, text) ==
  IF pcs[c] = "waiting" THEN [res EXCEPT ![c] = text] ELSE res

\* ------------------------------------------------------------ startProxy
\* lines 121-126 and 101-104: the call up to `await isProxyComponentInstalled()`.
\* listSpawned = FALSE: spawning the listing fails; its 'error' (nextTick)
\* resolves the check with false and the call rejects (lines 115-117, 127-129).
StartProxy(c, a, listSpawned) ==
  /\ tickQueue = <<>>
  /\ \E d \in StartCalls : startPc[d] = "idle"
  /\ c = NextStart
  /\ IF alreadyRunning(proxyProcess)
       THEN /\ startPc' = [startPc EXCEPT ![c] = "rejected"]
            /\ startResult' = [startResult EXCEPT ![c] = AlreadyRunningText]
            /\ startArgs' = startArgs
       ELSE IF listSpawned
         THEN /\ startPc' = [startPc EXCEPT ![c] = "check"]
              /\ startResult' = startResult
              /\ startArgs' = [startArgs EXCEPT ![c] = a]
         ELSE /\ startPc' = [startPc EXCEPT ![c] = "rejected"]
              /\ startResult' = [startResult EXCEPT ![c] = MissingText]
              /\ startArgs' = startArgs
  /\ UNCHANGED <<proxyProcess, procStatus, procArgv, stopPc, stopTarget,
                 stopResult, listOutput, listCode, lastLog, kills, tickQueue>>
  /\ UNCHANGED serverVars

\* lines 105-114: the listing writes `chunks` to stdout, each appended to
\* `output` by the 'data' listener, and terminates with `code`; its 'close'
\* listener resolves the check.  These listeners touch only the locals of
\* the check, so they are taken in one step.  The continuation of the
\* awaiting startProxy is queued as a microtask.
ListClose(c, code, chunks) ==
  /\ tickQueue = <<>>
  /\ startPc[c] = "check"
  /\ listCode[c] = NoCode
  /\ listOutput' = [listOutput EXCEPT ![c] = Concat(chunks)]
  /\ listCode' = [listCode EXCEPT ![c] = code]
  /\ tickQueue' = << [ev |-> "resume", p |-> c] >>
  /\ UNCHANGED <<proxyProcess, startPc, startArgs, startResult, procStatus,
                 procArgv, stopPc, stopTarget, stopResult, lastLog,
                 kills>>
  /\ UNCHANGED serverVars

\* lines 126-163: startProxy resumes with the result of the check; it either
\* rejects or spawns the proxy and installs its listeners.  spawned = FALSE:
\* the spawn fails and Node queues 'error' then 'close' of the new process.
Resume(c, spawned) ==
  /\ tickQueue # <<>>
  /\ Head(tickQueue) = [ev |-> "resume", p |-> c]
  /\ IF ~isProxyComponentInstalled(listCode[c], listOutput[c])
       THEN /\ startPc' = [startPc EXCEPT ![c] = "rejected"]
            /\ startResult' = [startResult EXCEPT ![c] = MissingText]
            /\ tickQueue' = Tail(tickQueue)
            /\ UNCHANGED <<proxyProcess, procStatus, procArgv>>
       ELSE /\ startPc' = [startPc EXCEPT ![c] = "waiting"]
            /\ startResult' = startResult
            /\ proxyProcess' = c
            /\ procArgv' = [procArgv EXCEPT ![c] = ProxyArgv(startArgs[c])]
            /\ procStatus' =
                 [procStatus EXCEPT ![c] = IF spawned THEN "alive" ELSE "failed"]
            /\ tickQueue' =
                 IF spawned THEN Tail(tickQueue)
                 ELSE << [ev |-> "error", p |-> c], [ev |-> "close", p |-> c] >>
  /\ listOutput' = [listOutput EXCEPT ![c] = <<>>]
  /\ listCode' = [listCode EXCEPT ![c] = NoCode]
  /\ UNCHANGED <<startArgs, stopPc, stopTarget, stopResult, lastLog,
                 kills>>
  /\ UNCHANGED serverVars

\* ------------------------------------------------- proxy process events
\* lines 142-147: stdout 'data' listener of process p
StdoutData(p, chunk) ==
  /\ tickQueue = <<>>
  /\ procStatus[p] = "alive"
  /\ lastLog' = StdoutLine(chunk)
  /\ IF isReadyChunk(chunk)
       THEN /\ startPc' = Settle(startPc, p, "resolved")
            /\ startResult' =
                 SettleText(startPc, startResult, p, StartedText(startArgs[p]))
       ELSE UNCHANGED <<startPc, startResult>>
  /\ UNCHANGED <<proxyProcess, startArgs, procStatus, procArgv, stopPc,
                 stopTarget, stopResult, listOutput, listCode, kills, tickQueue>>
  /\ UNCHANGED serverVars

\* mutant of StderrData: stderr is scanned for the marker as stdout is
StderrData_scanned(p, chunk) ==
  /\ tickQueue = <<>>
  /\ procStatus[p] = "alive"
  /\ lastLog' = StderrLine(chunk)
  /\ IF isReadyChunk(chunk)
       THEN /\ startPc' = Settle(startPc, p, "resolved")
            /\ startResult' =
                 SettleText(startPc, startResult, p, StartedText(startArgs[p]))
       ELSE UNCHANGED <<startPc, startResult>>
  /\ UNCHANGED <<proxyProcess, startArgs, procStatus, procArgv, stopPc,
                 stopTarget, stopResult, listOutput, listCode, kills, tickQueue>>
  /\ UNCHANGED serverVars

\* lines 149-151: stderr 'data' listener of process p
StderrData(p, chunk) ==
  /\ tickQueue = <<>>
  /\ procStatus[p] = "alive"
  /\ lastLog' = StderrLine(chunk)
  /\ UNCHANGED <<proxyProcess, startPc, startArgs, startResult, procStatus,
                 procArgv, stopPc, stopTarget, stopResult, listOutput,
                 listCode, kills, tickQueue>>
  /\ UNCHANGED serverVars

\* the 'close' listeners of process p: the one of startProxy (lines 153-158)
\* and one per stopProxy call that registered on p (lines 170-173)
CloseListeners(p) ==
  /\ proxyProcess' = handleAfterClose(proxyProcess, p)
  /\ stopPc' = [s \in StopCalls |->
       IF stopPc[s] = "waiting" /\ stopTarget[s] = p THEN "resolved"
       ELSE stopPc[s]]
  /\ stopResult' = [s \in StopCalls |->
       IF stopPc[s] = "waiting" /\ stopTarget[s] = p THEN StoppedText
       ELSE stopResult[s]]

\* the 'error' listener of process p (lines 160-163)
ErrorListener(p, msg) ==
  /\ proxyProcess' = handleAfterError(proxyProcess, p)
  /\ startPc' = Settle(startPc, p, "rejected")
  /\ startResult' = SettleText(startPc, startResult, p, FailedText(msg))

\* The process terminates and its 'close' is delivered.  'exit' has no
\* listener, so the program first learns of the termination from 'close';
\* the listeners ignore the exit code.
ProcClose(p, code) ==
  /\ tickQueue = <<>>
  /\ procStatus[p] = "alive"
  /\ procStatus' = [procStatus EXCEPT ![p] = "closed"]
  /\ CloseListeners(p)
  /\ UNCHANGED <<startPc, startArgs, startResult, procArgv, stopTarget,
                 listOutput, listCode, lastLog, kills,
                 tickQueue>>
  /\ UNCHANGED serverVars

\* 'error' of a process whose spawn failed (queued with process.nextTick)
SpawnError(p) ==
  /\ tickQueue # <<>>
  /\ Head(tickQueue) = [ev |-> "error", p |-> p]
  /\ tickQueue' = Tail(tickQueue)
  /\ ErrorListener(p, "spawn gcloud ENOENT")
  /\ UNCHANGED <<startArgs, procStatus, procArgv, stopPc, stopTarget,
                 stopResult, listOutput, listCode, lastLog, kills>>
  /\ UNCHANGED serverVars

\* 'close' of a process whose spawn failed; it follows its 'error'
SpawnClose(p) ==
  /\ tickQueue # <<>>
  /\ Head(tickQueue) = [ev |-> "close", p |-> p]
  /\ tickQueue' = Tail(tickQueue)
  /\ procStatus' = [procStatus EXCEPT ![p] = "closed"]
  /\ CloseListeners(p)
  /\ UNCHANGED <<startPc, startArgs, startResult, procArgv, stopTarget,
                 listOutput, listCode, lastLog, kills>>
  /\ UNCHANGED serverVars

\* ------------------------------------------------------------- stopProxy
\* mutant of StopProxy: the call resolves as soon as the signal is sent
StopProxy_resolveOnKill(s, killed) ==
  /\ tickQueue = <<>>
  /\ \E t \in StopCalls : stopPc[t] = "idle"
  /\ s = NextStop
  /\ stopPc' = [stopPc EXCEPT ![s] = "resolved"]
  /\ IF hasSession(proxyProcess)
       THEN /\ stopTarget' = [stopTarget EXCEPT ![s] = proxyProcess]
            /\ stopResult' = [stopResult EXCEPT ![s] = StoppedText]
            /\ kills' = kills + 1
       ELSE /\ stopResult' = [stopResult EXCEPT ![s] = NoProxyText]
            /\ UNCHANGED <<stopTarget, kills>>
  /\ UNCHANGED <<proxyProcess, startPc, startArgs, startResult, procStatus,
                 procArgv, listOutput, listCode, lastLog, tickQueue>>
  /\ UNCHANGED serverVars

\* lines 167-179.  killed = FALSE: kill() cannot signal the running process
\* and emits 'error' synchronously, which runs the listener of lines 160-163.
StopProxy(s, killed) ==
  /\ tickQueue = <<>>
  /\ \E t \in StopCalls : stopPc[t] = "idle"
  /\ s = NextStop
  /\ IF hasSession(proxyProcess)
       THEN /\ stopTarget' = [stopTarget EXCEPT ![s] = proxyProcess]
            /\ stopPc' = [stopPc EXCEPT ![s] = "waiting"]
            /\ stopResult' = stopResult
            /\ kills' = kills + 1
            /\ IF killed \/ ~IsAlive(proxyProcess)
                 THEN UNCHANGED <<proxyProcess, startPc, startResult>>
                 ELSE ErrorListener(proxyProcess, "kill EPERM")
       ELSE /\ stopPc' = [stopPc EXCEPT ![s] = "resolved"]
            /\ stopResult' = [stopResult EXCEPT ![s] = NoProxyText]
            /\ UNCHANGED <<proxyProcess, startPc, startResult, stopTarget,
                           kills>>
  /\ UNCHANGED <<startArgs, procStatus, procArgv, listOutput, listCode,
                 lastLog, tickQueue>>
  /\ UNCHANGED serverVars

\* ------------------------------------------------------- specification
Next ==
  \/ \E c \in StartCalls, ok \in BOOLEAN : StartProxy(c, ArgsOf(c), ok)
  \/ \E c \in StartCalls, code \in ExitCodes, chunks \in ListChunkSeqs :
       ListClose(c, code, chunks)
  \/ \E c \in StartCalls, ok \in BOOLEAN : Resume(c, ok)
  \/ \E p \in StartCalls, chunk \in Chunks : StdoutData(p, chunk)
  \/ \E p \in StartCalls, chunk \in ErrChunks : StderrData(p, chunk)
  \/ \E p \in StartCalls, code \in ExitCodes : ProcClose(p, code)
  \/ \E p \in StartCalls : SpawnError(p)
  \/ \E p \in StartCalls : SpawnClose(p)
  \/ \E s \in StopCalls, ok \in BOOLEAN : StopProxy(s, ok)

Spec == Init /\ [][Next]_vars

TypeOK ==
  /\ proxyProcess \in {NoProc} \cup StartCalls
  /\ startPc \in [StartCalls -> {"idle", "check", "waiting", "resolved", "rejected"}]
  /\ procStatus \in [StartCalls -> {"none", "failed", "alive", "closed"}]
  /\ stopPc \in [StopCalls -> {"idle", "waiting", "resolved"}]
  /\ kills \in 0..MaxStops


\* ------------------------------------------------------------- tools
\* One handler invocation is followed from the call to its result; the
\* handlers share no state, so invocations are taken one after the other.
Range(seq) == { seq[i] : i \in 1..Len(seq) }

\* lines 226-867: registerTools(server, {gcpCredentialsAvailable: flag})
RegisterTools(flag) ==
  /\ registered = <<>>
  /\ registered' = RegisteredNames
  /\ handlers' = [t \in ToolNames |->
       IF t \notin Range(RegisteredNames) THEN "none"
       ELSE IF t \in GatedTools THEN gcpTool(flag, "handler")
       ELSE "handler"]
  /\ gcpCredentialsAvailable' = flag
  /\ UNCHANGED <<invTool, invArgs, invPc, invResult, invCalls, allLogs,
                 requestOptions, served>>
  /\ UNCHANGED proxyVars
  /\ UNCHANGED startupVars

\* a collaborator call as the handler issued it
Issued(fn, options) == [fn |-> fn, options |-> options]

\* the server calls the handler held for `tool`; the handler runs up to its
\* first await (the advisory responder of lines 214-221 returns at once)
CallTool(tool, args) ==
  /\ handlers[tool] # "none"
  /\ invPc \in {"none", "returned", "thrown"}
  /\ invTool' = tool
  /\ invArgs' = args
  /\ allLogs' = <<>>
  /\ requestOptions' = Undefined
  /\ served' = <<>>
  /\ IF handlers[tool] = "advisory"
       THEN /\ invPc' = "returned"
            /\ invResult' = Content(AdvisoryText)
            /\ invCalls' = <<>>
       ELSE LET o == Prologue(tool, args) IN
            /\ invPc' = CASE o.kind = "call" -> "await"
                           [] o.kind = "return" -> "returned"
                           [] o.kind = "throw" -> "thrown"
            /\ invResult' = CASE o.kind = "call" -> <<>>
                               [] o.kind = "return" -> Content(o.text)
                               [] o.kind = "throw" -> Thrown(o.text)
            /\ invCalls' = IF o.kind = "call"
                             THEN <<Issued(o.fn, Undefined)>> ELSE <<>>
  /\ UNCHANGED <<registered, handlers, gcpCredentialsAvailable>>
  /\ UNCHANGED proxyVars
  /\ UNCHANGED startupVars

\* the awaited collaborator of a handler other than get_service_log
\* returns r: the handler renders it and returns
CollabReturn(r) ==
  /\ invPc = "await"
  /\ invTool # "get_service_log"
  /\ r \in Responses(invCalls[Len(invCalls)].fn, invArgs)
  /\ invPc' = "returned"
  /\ invResult' = Content(Then(invTool, invArgs, r))
  /\ UNCHANGED <<registered, handlers, gcpCredentialsAvailable, invTool,
                 invArgs, invCalls, allLogs, requestOptions, served>>
  /\ UNCHANGED proxyVars
  /\ UNCHANGED startupVars

\* the awaited collaborator of a handler other than get_service_log
\* throws e: the catch block of the handler renders it
CollabFail(e) ==
  /\ invPc = "await"
  /\ invTool # "get_service_log"
  /\ invPc' = "returned"
  /\ invResult' = Content(Catch(invTool, invArgs, e))
  /\ UNCHANGED <<registered, handlers, gcpCredentialsAvailable, invTool,
                 invArgs, invCalls, allLogs, requestOptions, served>>
  /\ UNCHANGED proxyVars
  /\ UNCHANGED startupVars

\* lines 470-494: getServiceLogs returns `response`; the loop body runs and
\* either fetches the next page or returns the joined blocks
GetServiceLogsReturn(response) ==
  /\ invPc = "await"
  /\ invTool = "get_service_log"
  /\ ~Falsy(response.requestOptions) => Len(served) + 1 < MaxPages
  /\ served' = Append(served, response)
  /\ allLogs' = pushLogs(allLogs, response)
  /\ requestOptions' = nextRequestOptions(response)
  /\ IF loopContinues(requestOptions')
       THEN /\ invCalls' =
                 Append(invCalls, Issued("getServiceLogs", requestOptions'))
            /\ UNCHANGED <<invPc, invResult>>
       ELSE /\ invPc' = "returned"
            /\ invResult' = Content(JoinLines(allLogs'))
            /\ invCalls' = invCalls
  /\ UNCHANGED <<registered, handlers, gcpCredentialsAvailable, invTool,
                 invArgs>>
  /\ UNCHANGED proxyVars
  /\ UNCHANGED startupVars

\* mutant of GetServiceLogsFail: a failed fetch is issued again
GetServiceLogsFail_retry(e) ==
  /\ invPc = "await"
  /\ invTool = "get_service_log"
  /\ Len(invCalls) < MaxPages + 1
  /\ invCalls' = Append(invCalls, Issued("getServiceLogs", requestOptions))
  /\ UNCHANGED <<registered, handlers, gcpCredentialsAvailable, invTool,
                 invArgs, invPc, invResult, allLogs, requestOptions, served>>
  /\ UNCHANGED proxyVars
  /\ UNCHANGED startupVars

\* lines 495-504: getServiceLogs throws e; the catch block returns the error
GetServiceLogsFail(e) ==
  /\ invPc = "await"
  /\ invTool = "get_service_log"
  /\ invPc' = "returned"
  /\ invResult' = Content(get_service_log_catch(invArgs, e))
  /\ UNCHANGED <<registered, handlers, gcpCredentialsAvailable, invTool,
                 invArgs, invCalls, allLogs, requestOptions, served>>
  /\ UNCHANGED proxyVars
  /\ UNCHANGED startupVars

ToolNext ==
  \/ \E flag \in FlagValues : RegisterTools(flag)
  \/ \E tool \in ToolNames : \E args \in ToolArgs(tool) : CallTool(tool, args)
  \/ \E r \in AllResponses : CollabReturn(r)
  \/ \E e \in Errors : CollabFail(e)
  \/ \E response \in Pages : GetServiceLogsReturn(response)
  \/ \E e \in Errors : GetServiceLogsFail(e)

ToolSpec == Init /\ [][ToolNext]_vars

ToolTypeOK ==
  /\ invPc \in {"none", "await", "returned", "thrown"}
  /\ Len(served) <= MaxPages
  /\ Len(invCalls) <= MaxPages

\* ------------------------------------------- credentials check and prompts
\* the checks made so far
Checks == Cardinality({ i \in DOMAIN console : console[i] = CheckingLine })

\* lines 26-31: the call writes the first line, constructs GoogleAuth and
\* awaits getClient; checks are taken one after the other
EnsureGCPCredentials ==
  /\ authPc \in {"idle", "done"}
  /\ Checks < MaxChecks
  /\ console' = Append(console, CheckingLine)
  /\ authCalls' = <<AuthCall("getClient", "pending")>>
  /\ authPc' = "getClient"
  /\ authResult' = "none"
  /\ UNCHANGED <<exitCalls, prompts, promptCall, promptResult>>
  /\ UNCHANGED proxyVars
  /\ UNCHANGED toolVars

\* mutant of GetClientReturn: the client is taken as proof of credentials
GetClientReturn_noToken ==
  /\ authPc = "getClient"
  /\ authCalls' = <<AuthCall("getClient", "ok")>>
  /\ console' = Append(console, FoundLine)
  /\ authPc' = "done"
  /\ authResult' = "true"
  /\ UNCHANGED <<exitCalls, prompts, promptCall, promptResult>>
  /\ UNCHANGED proxyVars
  /\ UNCHANGED toolVars

\* lines 31-34: getClient resolved; the token is requested from the client
GetClientReturn ==
  /\ authPc = "getClient"
  /\ authCalls' =
       <<AuthCall("getClient", "ok"), AuthCall("getAccessToken", "pending")>>
  /\ authPc' = "getAccessToken"
  /\ UNCHANGED <<authResult, console, exitCalls, prompts, promptCall,
                 promptResult>>
  /\ UNCHANGED proxyVars
  /\ UNCHANGED toolVars

\* lines 34-37: getAccessToken resolved; the check reports success
GetAccessTokenReturn ==
  /\ authPc = "getAccessToken"
  /\ authCalls' =
       [authCalls EXCEPT ![Len(authCalls)] = AuthCall(@.fn, "ok")]
  /\ console' = Append(console, FoundLine)
  /\ authPc' = "done"
  /\ authResult' = "true"
  /\ UNCHANGED <<exitCalls, prompts, promptCall, promptResult>>
  /\ UNCHANGED proxyVars
  /\ UNCHANGED toolVars

\* lines 38-78: the awaited call rejected with `error`; the catch block
\* writes its lines and the check resolves to false
CatchAuthError(error) ==
  /\ authPc \in {"getClient", "getAccessToken"}
  /\ authCalls' =
       [authCalls EXCEPT ![Len(authCalls)] = AuthCall(@.fn, "failed")]
  /\ console' = console \o FailureLines(error)
  /\ authPc' = "done"
  /\ authResult' = "false"
  /\ UNCHANGED <<exitCalls, prompts, promptCall, promptResult>>
  /\ UNCHANGED proxyVars
  /\ UNCHANGED toolVars

\* lines 18-63 of src/prompts.js: registerPrompts(server)
RegisterPrompts ==
  /\ prompts = <<>>
  /\ prompts' = PromptNames
  /\ UNCHANGED <<authPc, authResult, authCalls, console, exitCalls,
                 promptCall, promptResult>>
  /\ UNCHANGED proxyVars
  /\ UNCHANGED toolVars

\* the server calls the handler registered for `prompt`
GetPrompt(prompt, args) ==
  /\ prompt \in Range(prompts)
  /\ args \in PromptArgs(prompt)
  /\ promptCall' = [name |-> prompt, args |-> args]
  /\ promptResult' = Messages(IF prompt = "deploy" THEN deployPrompt(args)
                                                   ELSE logsPrompt(args))
  /\ UNCHANGED <<authPc, authResult, authCalls, console, exitCalls, prompts>>
  /\ UNCHANGED proxyVars
  /\ UNCHANGED toolVars

StartupNext ==
  \/ EnsureGCPCredentials
  \/ GetClientReturn
  \/ GetAccessTokenReturn
  \/ \E error \in AuthErrors : CatchAuthError(error)
  \/ RegisterPrompts
  \/ \E prompt \in Range(PromptNames) : \E args \in AllPromptArgs :
       GetPrompt(prompt, args)

StartupSpec == Init /\ [][StartupNext]_vars

StartupTypeOK ==
  /\ authPc \in {"idle", "getClient", "getAccessToken", "done"}
  /\ authResult \in {"none", "true", "false"}
  /\ Checks <= MaxChecks

\* ------------------------------------------------------------- claims
LiveProcs == { p \in StartCalls : procStatus[p] = "alive" }

\* C1: a startProxy call made while a session is active (Starting, Running
\* or Stopping) is rejected with the 'already running' error, spawns no
\* process and leaves the handle, every process and the session state as
\* they were.
C1_StartWhileActiveRejected ==
  [][\A c \in StartCalls :
       (startPc[c] = "idle" /\ startPc'[c] # "idle" /\ SessionState # "Idle")
         => /\ startPc'[c] = "rejected"
            /\ startResult'[c] = AlreadyRunningText
            /\ proxyProcess' = proxyProcess
            /\ procStatus' = procStatus
            /\ procArgv' = procArgv
            /\ tickQueue' = tickQueue
            /\ SessionState' = SessionState]_vars

\* a call was rejected as 'already running' and the session it met is active
C1_Witness ==
  \E c \in StartCalls :
    /\ startResult[c] = AlreadyRunningText
    /\ SessionState \in {"Starting", "Running", "Stopping"}
    /\ IsAlive(proxyProcess)

\* C2: at most one proxy child process has been spawned and not yet exited,
\* and that process is the one recorded in the handle.
C2_AtMostOneLiveProxy ==
  /\ Cardinality(LiveProcs) <= 1
  /\ \A p \in LiveProcs : proxyProcess = p

\* C3: a startProxy call resolves only in a step in which a stdout chunk
\* containing the readiness marker is observed (and written to the console),
\* and the text it resolves with names the service and the port of that call.
C3_ResolvesOnlyOnMarker ==
  [][\A c \in StartCalls :
       (startPc[c] # "resolved" /\ startPc'[c] = "resolved")
         => /\ startPc[c] = "waiting"
            /\ procStatus[c] = "alive"
            /\ \E chunk \in Chunks :
                 /\ lastLog' = StdoutLine(chunk)
                 /\ Includes(chunk, Marker)
            /\ Includes(startResult'[c], <<ArgsOf(c).service>>)
            /\ Includes(startResult'[c], <<PortText(ArgsOf(c).port)>>)
            /\ startResult'[c] = StartedText(ArgsOf(c))]_vars

\* the second call resolved, with its own service and port
C3_Witness ==
  /\ startPc[2] = "resolved"
  /\ startResult[2] =
       <<"Proxy for service ", "svc2", " started on port ", "8081", ".">>

\* C4: when the proxy process of a pending startProxy call terminates before
\* the readiness marker appeared, the call is rejected with the start-failed
\* error, and the handle is released.
C4_CloseBeforeMarkerRejects ==
  [][\A c \in StartCalls :
       (procStatus[c] = "alive" /\ procStatus'[c] = "closed"
          /\ startPc[c] = "waiting")
         => /\ startPc'[c] = "rejected"
            /\ Len(startResult'[c]) = 2
            /\ startResult'[c][1] = "Failed to start proxy: "
            /\ proxyProcess' = NoProc]_vars

\* C5: a stopProxy call made while a session is active resolves, with the
\* stop confirmation, only in the step in which the 'close' of the session's
\* process is observed; sending the signal leaves it pending; when it
\* resolves the handle is released and the session is Idle.
C5_StopResolvesOnClose ==
  [][\A s \in StopCalls :
       /\ (stopPc[s] = "idle" /\ stopPc'[s] # "idle" /\ SessionState # "Idle")
            => /\ stopPc'[s] = "waiting"
               /\ stopTarget'[s] = proxyProcess
               /\ kills' = kills + 1
       /\ (stopPc[s] = "waiting" /\ stopPc'[s] # "waiting")
            => /\ stopPc'[s] = "resolved"
               /\ stopResult'[s] = StoppedText
               /\ procStatus[stopTarget[s]] # "closed"
               /\ procStatus'[stopTarget[s]] = "closed"
               /\ proxyProcess' = NoProc
               /\ SessionState' = "Idle"
       /\ (stopResult'[s] = StoppedText)
            => procStatus'[stopTarget'[s]] = "closed"]_vars

\* a stop call resolved with the confirmation after its process closed
C5_Witness ==
  \E s \in StopCalls :
    /\ stopPc[s] = "resolved"
    /\ stopResult[s] = StoppedText
    /\ procStatus[stopTarget[s]] = "closed"
    /\ kills >= 1

\* C6: a stopProxy call made when no session is active resolves at once
\* with 'No proxy is currently running.', sends no signal and leaves the
\* session Idle; so does a stopProxy after a completed stop; no stopProxy
\* call ends other than pending or resolved.
C6_StopWhenIdle ==
  [][\A s \in StopCalls :
       /\ (stopPc[s] = "idle" /\ stopPc'[s] # "idle" /\ SessionState = "Idle")
            => /\ stopPc'[s] = "resolved"
               /\ stopResult'[s] = NoProxyText
               /\ kills' = kills
               /\ stopTarget'[s] = NoProc
               /\ proxyProcess' = NoProc
               /\ procStatus' = procStatus
               /\ startPc' = startPc
               /\ SessionState' = "Idle"
       /\ stopPc'[s] \in {"idle", "waiting", "resolved"}
       /\ stopPc'[s] = "resolved"
            => stopResult'[s] \in {NoProxyText, StoppedText}]_vars

\* a stop completed, and the stop call after it found nothing to stop
C6_Witness ==
  /\ stopPc[1] = "resolved" /\ stopResult[1] = StoppedText
  /\ stopPc[2] = "resolved" /\ stopResult[2] = NoProxyText
  /\ kills = 1

\* C7: whenever the handle is null, no proxy child process spawned by
\* startProxy is still alive.
C7_NullHandleMeansNoLiveProcess ==
  proxyProcess = NoProc => LiveProcs = {}

\* the session state changes in this step from a to b
Moves(a, b) == SessionState = a /\ SessionState' = b

SpawnsInto(c) ==
  /\ startPc[c] = "check" /\ startPc'[c] = "waiting"
  /\ procStatus[c] = "none" /\ procStatus'[c] \in {"alive", "failed"}
  /\ proxyProcess' = c
MarkerSeen ==
  \E chunk \in Chunks : lastLog' = StdoutLine(chunk) /\ Includes(chunk, Marker)
StopRequested ==
  \E s \in StopCalls : stopPc[s] = "idle" /\ stopPc'[s] = "waiting"
SomeProcessCloses ==
  \E p \in StartCalls : procStatus[p] # "closed" /\ procStatus'[p] = "closed"
ErrorDelivered ==
  \/ tickQueue # <<>> /\ Head(tickQueue).ev = "error"
  \/ StopRequested /\ proxyProcess # NoProc /\ proxyProcess' = NoProc

C9_FailedStartLeavesIdle ==
  [][\A c \in StartCalls :
       (startPc[c] # "rejected" /\ startPc'[c] = "rejected"
          /\ startResult'[c] # AlreadyRunningText)
         => /\ SessionState' = "Idle"
            /\ ~alreadyRunning(proxyProcess')]_vars

Stopped(s) == stopPc[s] = "resolved" /\ stopResult[s] = StoppedText

\* C11: end to end: a startProxy call whose process prints the readiness
\* marker resolves with the confirmation naming its port and service; a
\* stopProxy call made on that session resolves with the stop confirmation
\* only once the process has closed, and the session is Idle then; in that
\* Idle session a further stopProxy resolves at once with 'No proxy is
\* running' and a further startProxy is not rejected as 'already running'.
C11_EndToEnd ==
  [][/\ \A c \in StartCalls :
          (startPc[c] = "waiting" /\ startPc'[c] = "resolved")
            => /\ startResult'[c] = StartedText(ArgsOf(c))
               /\ Includes(startResult'[c], <<PortText(ArgsOf(c).port)>>)
               /\ Includes(startResult'[c], <<ArgsOf(c).service>>)
     /\ \A s \in StopCalls :
          (stopPc[s] = "waiting" /\ stopPc'[s] = "resolved")
            => /\ stopResult'[s] = StoppedText
               /\ procStatus'[stopTarget[s]] = "closed"
               /\ SessionState' = "Idle"
     /\ ((\E s \in StopCalls : Stopped(s)) /\ SessionState = "Idle")
          => /\ \A s \in StopCalls :
                  (stopPc[s] = "idle" /\ stopPc'[s] # "idle")
                    => /\ stopPc'[s] = "resolved"
                       /\ stopResult'[s] = NoProxyText
                       /\ kills' = kills
             /\ \A c \in StartCalls :
                  (startPc[c] = "idle" /\ startPc'[c] # "idle")
                    => startResult'[c] # AlreadyRunningText]_vars

\* the whole scenario ran: call 1 started and was confirmed, stop 1 was
\* confirmed after process 1 closed, stop 2 found nothing to stop and
\* start 2 was accepted and spawned its own process
C11_Witness ==
  /\ startPc[1] = "resolved"
  /\ startResult[1] = StartedText(Args1)
  /\ Stopped(1)
  /\ stopTarget[1] = 1
  /\ procStatus[1] = "closed"
  /\ stopPc[2] = "resolved"
  /\ stopResult[2] = NoProxyText
  /\ kills = 1
  /\ startPc[2] = "waiting"
  /\ procStatus[2] = "alive"

\* ------------------------------------------------ claims about the tools
\* the running invocation is one of the real get_service_log handler
InLogHandler == invTool = "get_service_log" /\ handlers[invTool] = "handler"

\* the invocation returned after every fetch it issued had returned a page
LogsReturned ==
  InLogHandler /\ invPc = "returned" /\ Len(invCalls) = Len(served)

\* the invocation returned out of a fetch that failed
LogsFailed ==
  InLogHandler /\ invPc = "returned" /\ Len(invCalls) = Len(served) + 1

\* the page carries a non-empty block of log text
HasBlock(page) == page.logs.type = "string" /\ page.logs.text # <<>>

\* the page carries a continuation token
HasToken(page) == page.requestOptions.type = "object"

\* the non-empty blocks of `pages`, in order
RECURSIVE Blocks(_)
Blocks(pages) ==
  IF pages = <<>> THEN <<>>
  ELSE IF HasBlock(Head(pages))
    THEN <<Head(pages).logs.text>> \o Blocks(Tail(pages))
  ELSE Blocks(Tail(pages))

\* the number of "\n" fragments of a text
RECURSIVE Newlines(_)
Newlines(t) ==
  IF t = <<>> THEN 0
  ELSE (IF Head(t) = "\n" THEN 1 ELSE 0) + Newlines(Tail(t))

RECURSIVE SumNewlines(_)
SumNewlines(blocks) ==
  IF blocks = <<>> THEN 0
  ELSE Newlines(Head(blocks)) + SumNewlines(Tail(blocks))

\* C12: get_service_log returns the non-empty log blocks of the fetched
\* pages, in fetch order, each once, with exactly one newline between
\* consecutive blocks; a page whose block is empty or null adds nothing,
\* not even a separator.
C12_JoinedInFetchOrder ==
  LogsReturned =>
    LET blocks == Blocks(served)
        text == invResult[1].text IN
    /\ Len(invResult) = 1
    /\ invResult[1].type = "text"
    /\ allLogs = blocks
    /\ text = JoinLines(blocks)
    /\ Newlines(text) =
         SumNewlines(blocks) + (IF blocks = <<>> THEN 0 ELSE Len(blocks) - 1)
    /\ blocks # <<>> =>
         /\ SubSeq(text, 1, Len(blocks[1])) = blocks[1]
         /\ SubSeq(text, Len(text) - Len(blocks[Len(blocks)]) + 1, Len(text))
              = blocks[Len(blocks)]

\* three pages were fetched, the second without a block, and the text is
\* the first block, one newline, the third block
C12_Witness ==
  /\ LogsReturned
  /\ Len(served) = 3
  /\ served[1].logs = Str(<<"log1", "\n", "log2">>)
  /\ ~HasBlock(served[2])
  /\ served[3].logs = Str(<<"log3">>)
  /\ invResult = Content(<<"log1", "\n", "log2", "\n", "log3">>)

\* C13: the pagination loop runs until a fetched page carries no
\* continuation token: while it waits for a page every page so far carried
\* a token and one more fetch than pages has been issued; when it returns
\* the joined text it has made exactly as many fetches as pages (at least
\* one), the last page carries no token and every earlier page carries one.
C13_StopsAtFirstTokenlessPage ==
  InLogHandler =>
    /\ invPc = "await" =>
         /\ \A i \in 1..Len(served) : HasToken(served[i])
         /\ Len(invCalls) = Len(served) + 1
    /\ LogsReturned =>
         /\ Len(invCalls) >= 1
         /\ ~HasToken(served[Len(served)])
         /\ \A i \in 1..(Len(served) - 1) : HasToken(served[i])
    /\ LogsFailed => \A i \in 1..Len(served) : HasToken(served[i])

\* pages (a, token), (b, null): exactly two fetches
C13_Witness ==
  /\ LogsReturned
  /\ Len(invCalls) = 2
  /\ served = << [logs |-> Str(<<"log1", "\n", "log2">>), requestOptions |-> Token1],
                 [logs |-> Str(<<"log3">>), requestOptions |-> Null] >>

\* C14: the fetches of one get_service_log invocation are sequential: the
\* first is issued without options, fetch n+1 is issued only when fetch n
\* has returned and gets exactly the options fetch n returned, and at most
\* one fetch is outstanding.
C14_SequentialFetches ==
  InLogHandler =>
    /\ Len(invCalls) - Len(served) \in {0, 1}
    /\ invPc = "await" => Len(invCalls) - Len(served) = 1
    /\ \A n \in 1..Len(invCalls) : invCalls[n].fn = "getServiceLogs"
    /\ Len(invCalls) >= 1 => invCalls[1].options = Undefined
    /\ \A n \in 1..(Len(invCalls) - 1) :
         /\ n <= Len(served)
         /\ invCalls[n + 1].options = served[n].requestOptions

\* the third fetch is outstanding and carries the token of the second page,
\* which differs from the token of the first
C14_Witness ==
  /\ InLogHandler
  /\ invPc = "await"
  /\ Len(invCalls) = 3
  /\ served[1].requestOptions = Token1
  /\ served[2].requestOptions = Token2
  /\ invCalls[3].options = Token2

\* C15: a fetch that fails ends the get_service_log invocation in that
\* step: no fetch is issued again, and the handler returns a single text
\* that names the service, the project, the region and the message of the
\* error and holds none of the blocks fetched before.
C15_FailureAborts ==
  [][(InLogHandler /\ invPc = "await" /\ served' = served
        /\ <<invPc, invCalls, invResult>>' # <<invPc, invCalls, invResult>>)
       => /\ invPc' = "returned"
          /\ invCalls' = invCalls
          /\ Len(invResult') = 1
          /\ invResult'[1].type = "text"
          /\ \E e \in Errors :
               invResult'[1].text =
                 <<"Error getting Logs for service ">> \o ToText(invArgs.service)
                   \o <<" in project ">> \o ToText(invArgs.project)
                   \o <<" (region ">> \o ToText(invArgs.region) \o <<"): ">>
                   \o e.message
          /\ \A i \in 1..Len(served) :
               HasBlock(served[i])
                 => ~Includes(invResult'[1].text, served[i].logs.text)]_vars

\* the second fetch failed after one block had been appended
C15_Witness ==
  /\ LogsFailed
  /\ Len(served) = 1
  /\ allLogs = << <<"log1", "\n", "log2">> >>
  /\ Len(invCalls) = 2
  /\ Includes(invResult[1].text, <<"Permission denied">>)

\* C16: when registerTools was called with gcpCredentialsAvailable false,
\* the handlers it registered never change, and every invocation of a gated
\* tool, whatever its arguments and however often, returns the advisory
\* text at once and calls no collaborator.
C16_GateShortCircuits ==
  [][(registered # <<>> /\ gcpCredentialsAvailable = "false")
       => /\ handlers' = handlers
          /\ gcpCredentialsAvailable' = gcpCredentialsAvailable
          /\ invTool' \in GatedTools
               => /\ invPc' = "returned"
                  /\ invResult' = Content(AdvisoryText)
                  /\ invCalls' = <<>>]_vars

\* with the flag false, deploy_local_files was called with arguments its
\* handler would have deployed, and answered with the advisory
C16_Witness ==
  /\ gcpCredentialsAvailable = "false"
  /\ invTool = "deploy_local_files"
  /\ invArgs.project = MyProject
  /\ Len(invArgs.files.items) = 2
  /\ invPc = "returned"
  /\ invResult = Content(AdvisoryText)
  /\ invCalls = <<>>

\* C17: no handler invocation throws or rejects: whatever the arguments
\* and whatever the collaborator does, the handler returns a `content`
\* array with exactly one element, of type text.
C17_NeverThrows ==
  /\ invPc # "thrown"
  /\ invPc = "returned" => Len(invResult) = 1 /\ invResult[1].type = "text"

\* the arguments of `tool` that the claim C18 calls invalid
InvalidArgs(tool, args) ==
  CASE tool = "create_project" ->
         /\ args.projectId.type # "undefined"
         /\ args.projectId.type # "string" \/ Trim(args.projectId.text) = <<>>
    [] tool = "list_services" -> args.project.type # "string"
    [] tool = "get_service" ->
         args.project.type # "string" \/ args.service.type # "string"
    [] tool = "deploy_local_files" ->
         \/ args.project.type # "string"
         \/ args.files.type # "array"
         \/ args.files.items = <<>>
    [] tool = "deploy_local_folder" ->
         \/ args.project.type # "string"
         \/ args.folderPath.type # "string"
         \/ Trim(args.folderPath.text) = <<>>
    [] tool = "deploy_file_contents" ->
         \/ args.project.type # "string"
         \/ args.files.type # "array"
         \/ args.files.items = <<>>
         \/ \E i \in 1..Len(args.files.items) :
              args.files.items[i].content \in {Undefined, Str(<<>>)}
    [] tool = "deploy_container_image" ->
         \/ args.project.type # "string"
         \/ args.imageUrl.type # "string"
         \/ Trim(args.imageUrl.text) = <<>>
    [] OTHER -> FALSE

\* C18: a handler invoked with invalid arguments calls no collaborator
\* during that invocation: it ends in the step that called it.
C18_ValidationFirst ==
  InvalidArgs(invTool, invArgs) => invCalls = <<>> /\ invPc # "await"

\* the real handlers rejected a blank folder path, and a blank project id
C18_Witness ==
  /\ invTool \in ToolNames
  /\ handlers[invTool] = "handler"
  /\ InvalidArgs(invTool, invArgs)
  /\ invCalls = <<>>
  /\ \/ /\ invTool = "deploy_local_folder"
        /\ invArgs.project = MyProject
        /\ invArgs.folderPath = Str(<<" ", " ">>)
        /\ invPc = "thrown"
     \/ /\ invTool = "create_project"
        /\ invArgs.projectId = Str(<<" ", " ">>)
        /\ invPc = "returned"

NineNames ==
  {"create_project", "deploy_container_image", "deploy_file_contents",
   "deploy_local_files", "deploy_local_folder", "get_service",
   "get_service_log", "list_projects", "list_services"}

C20_ProxyToolsExposed ==
  registered # <<>> =>
    /\ handlers["start_proxy"] # "none"
    /\ handlers["stop_proxy"] # "none"
    /\ handlers["get_service_log"] # "none"

\* C21: after registerTools(server) without an options object the handlers
\* work: an invocation of list_projects or get_service_log calls its
\* collaborator and returns the formatted result (the project list, the
\* joined pages), never the advisory text.
C21_FunctionalWithoutOptions ==
  (gcpCredentialsAvailable = "undefined" /\ registered # <<>>
     /\ invTool \in {"list_projects", "get_service_log"})
    => /\ invCalls # <<>>
       /\ invPc = "returned" => invResult # Content(AdvisoryText)
       /\ (invPc = "returned" /\ invTool = "list_projects"
             /\ Len(invResult[1].text) > 1)
            => Head(invResult[1].text) = "Available GCP Projects:\n"

\* ------------------------------- claims about the credentials check
\* the lines the last check wrote after its first line
LastCheckAt ==
  CHOOSE i \in DOMAIN console :
    console[i] = CheckingLine
      /\ \A j \in DOMAIN console : j > i => console[j] # CheckingLine
CheckLines == SubSeq(console, LastCheckAt + 1, Len(console))
FailedChecks ==
  Cardinality({ i \in DOMAIN console : console[i] = NotSetUpLine })
AuthSettled == authPc = "done"

ExpectedDiagnostics(error) ==
  << ErrorLine(<<"ERROR: Google Cloud Application Default Credentials are not set up.">>),
     ErrorLine(
       CASE error.status.type = "number" ->
              <<"An HTTP error occurred (Status: ">> \o error.status.text
                \o <<"). This often means misconfigured, expired credentials, or a network issue.">>
         [] error.status.type # "number" /\ error.class = "TypeError" ->
              <<"An unexpected error occurred during credential verification (e.g., malformed response or invalid type).">>
         [] OTHER ->
              <<"An unexpected error occurred during credential verification.">>) >>

PromptCalled == promptCall.name # "none"
PromptText == promptResult[1].content.text
Supplied(v) == v.type = "string" /\ v.text # <<>>

\* C24: registerPrompts registers 'deploy' and then 'logs' and nothing else;
\* the text of a handler's message ends with the supplied service name, or
\* with the fixed default phrase when none is supplied; when project and
\* region are supplied the text contains ' in project <project> in region
\* <region>'.
C24_PromptsUseArguments ==
  /\ prompts \in {<<>>, <<"deploy", "logs">>}
  /\ PromptCalled =>
       LET args == promptCall.args
           given == IF promptCall.name = "deploy" THEN args.name
                                                  ELSE args.service
           default ==
             IF promptCall.name = "deploy"
               THEN <<"a name for the application based on the current working directory.">>
               ELSE <<"named for the current working directory">>
           tail == IF Supplied(given) THEN given.text ELSE default
       IN /\ Len(promptResult) = 1
          /\ promptResult[1].role = "user"
          /\ SubSeq(PromptText, Len(PromptText) - Len(tail) + 1,
                    Len(PromptText)) = tail
          /\ (Supplied(args.project) /\ Supplied(args.region))
               => Includes(PromptText,
                           <<" in project ">> \o args.project.text
                             \o <<" in region ">> \o args.region.text)

\* ------------------------------- claims about the proxy process events
StdoutLogged(chunk) == lastLog' = StdoutLine(chunk)
StderrLogged(chunk) == lastLog' = StderrLine(chunk)

C26_SettlesAtMostOnce ==
  [][\A c \in StartCalls :
       startPc[c] \in {"resolved", "rejected"}
         => /\ startPc'[c] = startPc[c]
            /\ startResult'[c] = startResult[c]]_vars

\* the only process spawned is alive; its call was rejected by the 'error'
\* of a failed kill, and the process then wrote the marker to stdout
C26_Witness ==
  /\ startPc[1] = "rejected"
  /\ startResult[1] = <<"Failed to start proxy: ", "kill EPERM">>
  /\ IsAlive(1)
  /\ procStatus[2] = "none"
  /\ lastLog = <<"Proxy stdout: ", "Proxying to Cloud ", "Run service">>

\* C27: a startProxy call that spawned a process settles once the process
\* has written the marker, terminated or failed: no call is still waiting
\* for readiness when its process has terminated (no event of that process
\* can follow), whether or not a stopProxy call was made meanwhile.
C27_SpawnedStartSettles ==
  \A c \in StartCalls :
    procStatus[c] = "closed" => startPc[c] \in {"resolved", "rejected"}

\* C28: the 'close' (or 'error') of a process that is not the one in the
\* handle leaves the handle alone when the process in the handle is alive.
C28_StaleEventKeepsHandle ==
  [][\A p \in StartCalls :
       (/\ proxyProcess # NoProc
        /\ proxyProcess # p
        /\ IsAlive(proxyProcess)
        /\ procStatus[p] # "closed"
        /\ procStatus'[p] = "closed")
         => proxyProcess' = proxyProcess]_vars

\* process p was Running and terminated without a stopProxy call on it
ExitedOnItsOwn(p) ==
  /\ startPc[p] = "resolved"
  /\ procStatus[p] = "closed"
  /\ \A s \in StopCalls : stopTarget[s] # p

\* C29: when the process of a Running session terminates without a
\* stopProxy call, the session becomes Idle and the handle is released; as
\* long as the session stays Idle after such an exit, a stopProxy call
\* resolves at once with 'No proxy is currently running.' and a startProxy
\* call is not rejected as already running.
C29_SelfExitReturnsToIdle ==
  [][/\ \A p \in StartCalls :
          (/\ SessionState = "Running"
           /\ proxyProcess = p
           /\ procStatus[p] = "alive"
           /\ procStatus'[p] = "closed")
            => /\ proxyProcess' = NoProc
               /\ SessionState' = "Idle"
     /\ ((\E p \in StartCalls : ExitedOnItsOwn(p)) /\ SessionState = "Idle")
          => /\ \A s \in StopCalls :
                  (stopPc[s] = "idle" /\ stopPc'[s] # "idle")
                    => /\ stopPc'[s] = "resolved"
                       /\ stopResult'[s] = NoProxyText
                       /\ kills' = kills
             /\ \A c \in StartCalls :
                  (startPc[c] = "idle" /\ startPc'[c] # "idle")
                    => startResult'[c] # AlreadyRunningText]_vars

\* the first proxy ran and terminated on its own; a stopProxy call then
\* found no proxy, and the second startProxy call spawned its process
C29_Witness ==
  /\ ExitedOnItsOwn(1)
  /\ stopPc[1] = "resolved"
  /\ stopResult[1] = <<"No proxy is currently running.">>
  /\ startPc[2] = "waiting"
  /\ proxyProcess = 2

\* C30: readiness is a property of the text written to stdout, not of its
\* division into chunks: when the only process spawned writes two
\* consecutive stdout chunks whose concatenation contains the marker, the
\* call waiting for it resolves with the second chunk.
C30_ReadyOnConcatenation ==
  [][\A p \in StartCalls : \A first, second \in Chunks :
       (/\ \A q \in StartCalls \ {p} : procStatus[q] = "none"
        /\ IsAlive(p)
        /\ startPc[p] = "waiting"
        /\ lastLog = StdoutLine(first)
        /\ lastLog' = StdoutLine(second)
        /\ lastLog' # lastLog
        /\ Includes(first \o second, Marker))
         => startPc'[p] = "resolved"]_vars
====
